---- MODULE Spec2Model ----
(***************************************************************************)
(* topo_order_commits.py: build_commit_graph, topo_sort and                *)
(* print_topo_ordered_commits as a state machine.                          *)
(*                                                                         *)
(* Commit hashes are positive integers; Python's string order on hashes    *)
(* (sorted()) is the integer order.  Branch names are integers too.  The   *)
(* text printed is a sequence of lines, a line a sequence of tokens: a     *)
(* hash, a branch name, or EQ for the "=" of a sticky line.                *)
(***************************************************************************)
EXTENDS Integers, Sequences, FiniteSets, TLC

\* ---- bounds ------------------------------------------------------------
NumIds == 3         \* Spec: hashes that occur in the object store
MaxLines == 2       \* Spec: lines of a decompressed object
MaxBranches == 2    \* Spec: files under refs/heads
MaxNodes == 4       \* SpecSort: keys of the commit graph handed to topo_sort
MaxEdges == 4       \* SpecSort: parent edges of that graph

Ids == 1..NumIds
BranchNames == 1..MaxBranches

VARIABLES
  pc,            \* position in topo_order_commits
  branches,      \* get_branches(): sequence of <<branch_name, commit_hash>>
  objects,       \* the objects decompress_git_object was asked for so far: hash -> object
  graph,         \* build_commit_graph.graph, then commit_nodes: hash -> CommitNode
  stack,         \* build_commit_graph.stack
  visited,       \* build_commit_graph.visited
  commit_hash,   \* build_commit_graph.commit_hash (None: no iteration yet)
  lines,         \* the lines of the object of commit_hash not scanned yet
  in_degree,     \* topo_sort.in_degree
  queue,         \* topo_sort.queue
  result,        \* topo_sort.result
  current,       \* topo_sort.current
  children,      \* the rest of sorted(commit_nodes[current].children) in the for loop
  together,      \* history: pairs of hashes that were in queue at the same moment
  topo_ordered_commits,  \* what topo_sort returned
  prev,          \* print_topo_ordered_commits.prev
  i,             \* print_topo_ordered_commits: index of the next commit to print
  out            \* the lines written to standard output

buildVars == <<objects, stack, visited, commit_hash, lines>>
sortVars == <<in_degree, queue, result, current, children, together>>
printVars == <<prev, i, out>>
vars == <<pc, branches, graph, buildVars, sortVars, topo_ordered_commits, printVars>>

None == 0     \* Python's None where a hash is expected
EQ == 0       \* the token "=" of a sticky line

\* ---- sequences ---------------------------------------------------------
Front(s) == SubSeq(s, 1, Len(s) - 1)
Last(s) == s[Len(s)]
Range(s) == {s[k] : k \in 1..Len(s)}

RECURSIVE SeqsUpTo(_, _)
SeqsUpTo(S, n) ==
  IF n = 0 THEN {<<>>}
  ELSE LET shorter == SeqsUpTo(S, n - 1)
       IN shorter \cup {Append(s, x) : s \in {t \in shorter : Len(t) = n - 1}, x \in S}

\* every order in which Python may iterate over a set or over the keys of a dict
RECURSIVE Perms(_)
Perms(S) ==
  IF S = {} THEN {<<>>}
  ELSE UNION {{<<x>> \o p : p \in Perms(S \ {x})} : x \in S}

\* sorted(): ascending order, by insertion
RECURSIVE InsertSorted(_, _)
InsertSorted(s, x) ==
  IF s = <<>> THEN <<x>>
  ELSE IF x < Head(s) THEN <<x>> \o s
  ELSE <<Head(s)>> \o InsertSorted(Tail(s), x)

RECURSIVE SortedAsc(_)
SortedAsc(s) == IF s = <<>> THEN <<>> ELSE InsertSorted(SortedAsc(Front(s)), Last(s))

\* mutation of Sorted: the list is left in the order it was built in
Unsorted(s) == s

\* mutation of Sorted: sorted(..., reverse=True)
SortedDescending(s) == [k \in 1..Len(s) |-> SortedAsc(s)[Len(s) + 1 - k]]

\* sorted(...)
Sorted(s) == SortedAsc(s)

\* mutation of Reversed: result is returned as built
NotReversed(s) == s

\* reversed()
Reversed(s) == [k \in 1..Len(s) |-> s[Len(s) + 1 - k]]

\* sorted(S) for a set S, whatever the order S is iterated in
SortedSet(S) == Sorted(CHOOSE p \in Perms(S) : TRUE)

\* ---- lines and objects -------------------------------------------------
ParentLine(h) == [kind |-> "parent", hash |-> h]   \* "parent <h>"
BlankLine == [kind |-> "blank", hash |-> None]     \* ""
OtherLine == [kind |-> "other", hash |-> None]     \* "tree ...", "author ...", text
LineSet == {ParentLine(h) : h \in Ids} \cup {BlankLine, OtherLine}

\* What the object store can hold under objects/<hash>: nothing, bytes that
\* zlib.decompress or decode rejects, or the text of an object.
Absent == [status |-> "absent", lines |-> <<>>]
Unreadable == [status |-> "unreadable", lines |-> <<>>]
Readable(ls) == [status |-> "ok", lines |-> ls]
ObjectSet == {Absent, Unreadable} \cup {Readable(ls) : ls \in SeqsUpTo(LineSet, MaxLines)}

\* the parents an object's header declares: its parent lines before the first blank line
RECURSIVE HeaderParents(_)
HeaderParents(ls) ==
  IF ls = <<>> \/ Head(ls).kind = "blank" THEN {}
  ELSE (IF Head(ls).kind = "parent" THEN {Head(ls).hash} ELSE {}) \cup HeaderParents(Tail(ls))

\* class CommitNode
CommitNode(h) == [commit_hash |-> h, parents |-> {}, children |-> {}]

\* ---- build_commit_graph ------------------------------------------------
\* "if h not in graph: graph[h] = CommitNode(h)"
EnsureNode(g, h) == IF h \in DOMAIN g THEN g ELSE g @@ (h :> CommitNode(h))

\* mutation of AddEdge: the children set of the parent is not updated
AddEdgeNoChild(g, c, p) == [EnsureNode(g, p) EXCEPT ![c].parents = @ \cup {p}]

\* one parent line of commit c naming parent p
AddEdge(g, c, p) ==
  LET g1 == EnsureNode(g, p)
      g2 == [g1 EXCEPT ![c].parents = @ \cup {p}]
  IN [g2 EXCEPT ![p].children = @ \cup {c}]

\* the stack starts as the branch heads, in list order
SeedStack(bl) == [k \in 1..Len(bl) |-> bl[k][2]]

\* mutation of RestAfter: no break at the blank line
RestAfterNoBreak(ls) == Tail(ls)

\* the lines left to scan after the first of ls: none after a blank line (break)
RestAfter(ls) == IF Head(ls).kind = "blank" THEN <<>> ELSE Tail(ls)

\* pop a hash that was visited before
BuildSkipVisited ==
  /\ pc = "build"
  /\ stack # <<>>
  /\ Last(stack) \in visited
  /\ stack' = Front(stack)
  /\ commit_hash' = Last(stack)
  /\ UNCHANGED <<pc, branches, graph, objects, visited, lines, sortVars,
                 topo_ordered_commits, printVars>>

\* pop a new hash, create its node, read its object.  decompress_git_object
\* returns [] if the file does not exist and the split text if it
\* decompresses; zlib.decompress and decode raise if it does not, and nothing
\* catches that.
BuildVisit ==
  /\ pc = "build"
  /\ stack # <<>>
  /\ Last(stack) \notin visited
  /\ \E obj \in ObjectSet :
       /\ objects' = objects @@ (Last(stack) :> obj)
       /\ IF obj.status = "unreadable"
          THEN /\ pc' = "crashed"
               /\ lines' = <<>>
          ELSE /\ lines' = obj.lines
               /\ pc' = IF obj.lines = <<>> THEN "build" ELSE "scan"
  /\ stack' = Front(stack)
  /\ commit_hash' = Last(stack)
  /\ visited' = visited \cup {Last(stack)}
  /\ graph' = EnsureNode(graph, Last(stack))
  /\ UNCHANGED <<branches, sortVars, topo_ordered_commits, printVars>>

\* one iteration of "for line in lines"
ScanLine ==
  /\ pc = "scan"
  /\ IF Head(lines).kind = "parent"
     THEN /\ graph' = AddEdge(graph, commit_hash, Head(lines).hash)
          /\ stack' = Append(stack, Head(lines).hash)
     ELSE UNCHANGED <<graph, stack>>
  /\ lines' = RestAfter(lines)
  /\ pc' = IF lines' = <<>> THEN "build" ELSE "scan"
  /\ UNCHANGED <<branches, objects, visited, commit_hash, sortVars,
                 topo_ordered_commits, printVars>>

\* "return graph": the locals of build_commit_graph are gone
BuildReturn ==
  /\ pc = "build"
  /\ stack = <<>>
  /\ pc' = "built"
  /\ visited' = {}
  /\ commit_hash' = None
  /\ UNCHANGED <<branches, graph, objects, stack, lines, sortVars,
                 topo_ordered_commits, printVars>>

\* ---- topo_sort ---------------------------------------------------------
\* mutation of InDegree: the children are counted
InDegreeByChildren(g) == [h \in DOMAIN g |-> Cardinality(g[h].children)]

\* in_degree[hash_] = len(node.parents)
InDegree(g) == [h \in DOMAIN g |-> Cardinality(g[h].parents)]

\* the pairs of hashes in q, smaller first
PairsIn(q) == {<<a, b>> \in Range(q) \X Range(q) : a < b}

\* in_degree, the sorted queue of the commits without parents, result = [].
\* roots: the hashes of degree 0 in the order the dict yields them.
SortStart ==
  /\ pc = "built"
  /\ in_degree' = InDegree(graph)
  /\ \E roots \in Perms({h \in DOMAIN graph : in_degree'[h] = 0}) :
       queue' = Sorted(roots)
  /\ result' = <<>>
  /\ together' = PairsIn(queue')
  /\ pc' = "sort"
  /\ UNCHANGED <<branches, graph, buildVars, current, children,
                 topo_ordered_commits, printVars>>

\* "current = queue.popleft(); result.append(current)" and the start of the
\* loop over sorted(commit_nodes[current].children)
SortPop ==
  /\ pc = "sort"
  /\ queue # <<>>
  /\ current' = Head(queue)
  /\ queue' = Tail(queue)
  /\ result' = Append(result, Head(queue))
  /\ \E order \in Perms(graph[Head(queue)].children) : children' = Sorted(order)
  /\ pc' = IF children' = <<>> THEN "sort" ELSE "sort_child"
  /\ UNCHANGED <<branches, graph, buildVars, in_degree, together,
                 topo_ordered_commits, printVars>>

\* one child of current: one parent less to wait for; ready at zero
SortChild ==
  /\ pc = "sort_child"
  /\ in_degree' = [in_degree EXCEPT ![Head(children)] = @ - 1]
  /\ queue' = IF in_degree'[Head(children)] = 0
              THEN Sorted(Append(queue, Head(children)))
              ELSE queue
  /\ together' = together \cup PairsIn(queue')
  /\ children' = Tail(children)
  /\ pc' = IF children' = <<>> THEN "sort" ELSE "sort_child"
  /\ UNCHANGED <<branches, graph, buildVars, result, current,
                 topo_ordered_commits, printVars>>

\* "return list(reversed(result))": the locals of topo_sort are gone
SortReturn ==
  /\ pc = "sort"
  /\ queue = <<>>
  /\ topo_ordered_commits' = Reversed(result)
  /\ in_degree' = <<>>
  /\ result' = <<>>
  /\ current' = None
  /\ i' = 1
  /\ pc' = "print"
  /\ UNCHANGED <<branches, graph, buildVars, queue, children, together, prev, out>>

\* ---- print_topo_ordered_commits ----------------------------------------
\* topo_order_commits: head_to_branches[commit_hash].append(branch_name)
RECURSIVE NamesOf(_, _)
NamesOf(bl, h) ==
  IF bl = <<>> THEN <<>>
  ELSE (IF Head(bl)[2] = h THEN <<Head(bl)[1]>> ELSE <<>>) \o NamesOf(Tail(bl), h)

HeadToBranches(bl) == [h \in {bl[k][2] : k \in 1..Len(bl)} |-> NamesOf(bl, h)]

head_to_branches == HeadToBranches(branches)

\* mutation of NeedsSticky: prev is looked up among the parents
NeedsStickyParents(g, p, c) == p # None /\ p \notin g[c].parents

\* "prev is not None and prev not in commit_nodes[commit_hash].children"
NeedsSticky(g, p, c) == p # None /\ p \notin g[c].children

\* the sticky end: the parents of prev, sorted, then "="
StickyEnd(g, p) == SortedSet(g[p].parents) \o <<EQ>>

\* mutation of StickyStart: the parents are listed
StickyStartParents(g, c) == <<EQ>> \o SortedSet(g[c].parents)

\* the sticky start: "=", then the children of the commit, sorted
StickyStart(g, c) == <<EQ>> \o SortedSet(g[c].children)

\* the commit's own line: its hash, then its branch names, sorted
CommitLine(h2b, c) ==
  <<c>> \o (IF c \in DOMAIN h2b THEN Sorted(h2b[c]) ELSE <<>>)

\* one iteration of "for i, commit_hash in enumerate(topo_ordered_commits)"
PrintCommit ==
  /\ pc = "print"
  /\ i <= Len(topo_ordered_commits)
  /\ LET c == topo_ordered_commits[i]
         sticky == IF NeedsSticky(graph, prev, c)
                   THEN <<StickyEnd(graph, prev), <<>>, StickyStart(graph, c)>>
                   ELSE <<>>
     IN /\ out' = out \o sticky \o <<CommitLine(head_to_branches, c)>>
        /\ prev' = c
  /\ i' = i + 1
  /\ UNCHANGED <<pc, branches, graph, buildVars, sortVars, topo_ordered_commits>>

\* the loop is over: topo_order_commits returns
PrintReturn ==
  /\ pc = "print"
  /\ i > Len(topo_ordered_commits)
  /\ pc' = "done"
  /\ UNCHANGED <<branches, graph, buildVars, sortVars, topo_ordered_commits, printVars>>

\* ---- the program -------------------------------------------------------
\* get_branches: distinct file names under refs/heads, each holding a hash
BranchLists ==
  {bl \in SeqsUpTo(BranchNames \X Ids, MaxBranches) :
     \A k, m \in 1..Len(bl) : k # m => bl[k][1] # bl[m][1]}

Init ==
  /\ pc = "build"
  /\ branches \in BranchLists
  /\ objects = <<>>
  /\ graph = <<>>
  /\ stack = SeedStack(branches)
  /\ visited = {}
  /\ commit_hash = None
  /\ lines = <<>>
  /\ in_degree = <<>>
  /\ queue = <<>>
  /\ result = <<>>
  /\ current = None
  /\ children = <<>>
  /\ together = {}
  /\ topo_ordered_commits = <<>>
  /\ prev = None
  /\ i = 0
  /\ out = <<>>

NextBuild == BuildSkipVisited \/ BuildVisit \/ ScanLine \/ BuildReturn

NextSort == SortStart \/ SortPop \/ SortChild \/ SortReturn \/ PrintCommit \/ PrintReturn

Next == NextBuild \/ NextSort

Spec == Init /\ [][Next]_vars
\* ---- topo_sort and the printing on every small commit graph --------------
\* the subsets of S with at most k elements
RECURSIVE SubsetsUpTo(_, _)
SubsetsUpTo(S, k) ==
  IF k = 0 THEN {{}}
  ELSE LET smaller == SubsetsUpTo(S, k - 1)
       IN smaller \cup {T \cup {x} : T \in smaller, x \in S}

\* the graph build_commit_graph returns for the keys K and the parent lines E,
\* <<c, p>> \in E for "parent p" in the header of c
GraphOf(K, E) ==
  [h \in K |-> [commit_hash |-> h,
                parents |-> {p \in K : <<h, p>> \in E},
                children |-> {c \in K : <<c, h>> \in E}]]

\* the commits reachable from the set H along parent edges
RECURSIVE ReachableFrom(_, _)
ReachableFrom(g, H) ==
  LET more == H \cup UNION {g[h].parents : h \in H}
  IN IF more = H THEN H ELSE ReachableFrom(g, more)

\* an object whose header declares the parents P
ObjectLines(P) == [k \in 1..Cardinality(P) |-> ParentLine(SortedSet(P)[k])]

\* branch heads that reach every key of g: the commits without children and
\* the commits they do not reach
HeadsOf(g) ==
  LET leaves == {h \in DOMAIN g : g[h].children = {}}
  IN leaves \cup (DOMAIN g \ ReachableFrom(g, leaves))

\* one branch per head, named after it, and an alias of the smallest head
BranchesOf(g) ==
  LET desc == Reversed(SortedSet(HeadsOf(g)))
      named == [k \in 1..Len(desc) |-> <<desc[k], desc[k]>>]
  IN IF desc = <<>> THEN <<>> ELSE <<<<MaxNodes + 1, Last(desc)>>>> \o named

InitSort ==
  /\ pc = "built"
  /\ \E n \in 0..MaxNodes :
       \E E \in SubsetsUpTo((1..n) \X (1..n), MaxEdges) :
         graph = GraphOf(1..n, E)
  /\ branches = BranchesOf(graph)
  /\ objects = [h \in DOMAIN graph |-> Readable(ObjectLines(graph[h].parents))]
  /\ stack = <<>>
  /\ visited = {}
  /\ commit_hash = None
  /\ lines = <<>>
  /\ in_degree = <<>>
  /\ queue = <<>>
  /\ result = <<>>
  /\ current = None
  /\ children = <<>>
  /\ together = {}
  /\ topo_ordered_commits = <<>>
  /\ prev = None
  /\ i = 0
  /\ out = <<>>

SpecSort == InitSort /\ [][NextSort]_vars
\* ======================= properties =====================================
Keys == DOMAIN graph

\* the place of x in the sequence s (0 if it is absent)
Pos(s, x) == IF x \in Range(s) THEN CHOOSE k \in 1..Len(s) : s[k] = x ELSE 0

\* topo_sort has returned
SortReturned == pc \in {"print", "done"}

\* build_commit_graph has returned
BuildReturned == pc \in {"built", "sort", "sort_child", "print", "done"}

\* some commit is its own ancestor
HasCycle(g) == \E h \in DOMAIN g : h \in ReachableFrom(g, g[h].parents)

\* B \in A.parents <=> A \in B.children, for all nodes of the table
Consistent(g) ==
  \A a, b \in DOMAIN g : (b \in g[a].parents) <=> (a \in g[b].children)

\* C1: topo_sort does not return normally on a table that holds a cycle, it
\* reports an error (so it returns no sequence shorter than the table).
C1_CycleRejected == HasCycle(graph) => ~SortReturned

\* C2: on an acyclic table every parent stands strictly after each of its
\* children in the sequence topo_sort returns.
C2_ParentsAfterChildren ==
  (SortReturned /\ ~HasCycle(graph)) =>
    \A c \in Keys : \A p \in graph[c].parents :
      /\ Pos(topo_ordered_commits, c) > 0
      /\ Pos(topo_ordered_commits, c) < Pos(topo_ordered_commits, p)

C2_Witness ==
  /\ SortReturned
  /\ ~HasCycle(graph)
  /\ Cardinality(Keys) = 4
  /\ \E c \in Keys : Cardinality(graph[c].parents) = 2
  /\ \E p \in Keys : Cardinality(graph[p].children) = 2

\* C3: on an acyclic table of N keys topo_sort returns N hashes, every key
\* once and nothing else.
C3_Permutation ==
  (SortReturned /\ ~HasCycle(graph)) =>
    /\ Len(topo_ordered_commits) = Cardinality(Keys)
    /\ Range(topo_ordered_commits) = Keys

C3_Witness ==
  /\ SortReturned
  /\ ~HasCycle(graph)
  /\ Cardinality(Keys) = 4
  /\ \E c \in Keys : Cardinality(graph[c].parents) = 3

\* C4 as claimed: of two hashes that were in the queue at the same moment the
\* smaller one stands first in the sequence topo_sort returns.
C4_SmallerFirstReturned ==
  SortReturned =>
    \A ab \in together :
      Pos(topo_ordered_commits, ab[1]) < Pos(topo_ordered_commits, ab[2])

\* C4 amended: of two hashes that were in the queue at the same moment the
\* smaller one is appended to result first, so that it stands after the
\* larger one in the reversed sequence topo_sort returns.
C4_SmallerFirstBuilt ==
  /\ pc \in {"sort", "sort_child"} =>
       \A ab \in together :
         ab[2] \in Range(result) =>
           /\ ab[1] \in Range(result)
           /\ Pos(result, ab[1]) < Pos(result, ab[2])
  /\ SortReturned =>
       \A ab \in together :
         /\ Pos(topo_ordered_commits, ab[2]) > 0
         /\ Pos(topo_ordered_commits, ab[2]) < Pos(topo_ordered_commits, ab[1])

C4_Witness ==
  /\ SortReturned
  /\ \E ab \in together : graph[ab[1]].parents # {} /\ graph[ab[2]].parents = {}
  /\ \E ab \in together : graph[ab[1]].parents = {} /\ graph[ab[2]].parents = {}

\* ---- the printed text ----------------------------------------------------
IsBlank(l) == l = <<>>
IsMarker(l) == l # <<>> /\ EQ \in Range(l)
IsCommitLineOf(l, h) == l # <<>> /\ Head(l) = h /\ EQ \notin Range(l)

\* a boundary block starts at line k: closing marker, blank line, opening marker
BoundaryAt(k) ==
  /\ k >= 1
  /\ k + 2 <= Len(out)
  /\ IsMarker(out[k]) /\ Last(out[k]) = EQ
  /\ IsBlank(out[k + 1])
  /\ IsMarker(out[k + 2]) /\ Head(out[k + 2]) = EQ

Boundaries == {k \in 1..Len(out) : BoundaryAt(k)}
BlankLines == {k \in 1..Len(out) : IsBlank(out[k])}
MarkerLines == {k \in 1..Len(out) : IsMarker(out[k])}

\* the commits printed so far
Printed == SubSeq(topo_ordered_commits, 1, i - 1)

\* the j-th printed commit is not a child of the one printed before it
Jump(j) == j > 1 /\ Printed[j - 1] \notin graph[Printed[j]].children

\* neither of a and b is a parent of the other
Linked(a, b) == a \in graph[b].children \/ a \in graph[b].parents

\* the line of out that holds the j-th printed commit, were every commit given
\* one line and every jump three lines before it
LineOf(j) == j + 3 * Cardinality({m \in 1..j : Jump(m)})

TwoEdges(g) ==
  /\ Cardinality(DOMAIN g) = 4
  /\ Cardinality({h \in DOMAIN g : g[h].parents = {} /\ Cardinality(g[h].children) = 1}) = 2
  /\ Cardinality({h \in DOMAIN g : g[h].children = {} /\ Cardinality(g[h].parents) = 1}) = 2

\* the block at line k closes with the parents of the commit printed before it
\* and opens with the children of the commit printed after it
BlockWellFormed(k) ==
  \E a, b \in Keys :
    /\ k > 1 /\ IsCommitLineOf(out[k - 1], a)
    /\ k + 3 <= Len(out) /\ IsCommitLineOf(out[k + 3], b)
    /\ out[k] = SortedSet(graph[a].parents) \o <<EQ>>
    /\ out[k + 2] = <<EQ>> \o SortedSet(graph[b].children)

\* each of the two edges is printed as child, parent on adjacent places
RunsContiguous ==
  \A c \in Keys : \A p \in graph[c].parents :
    Pos(topo_ordered_commits, p) = Pos(topo_ordered_commits, c) + 1

\* C5 as claimed: the text for two disjoint edges prints each edge as one run
\* and holds exactly one boundary block.
C5_OneBoundary ==
  (pc = "done" /\ TwoEdges(graph)) =>
    /\ RunsContiguous
    /\ Cardinality(Boundaries) = 1
    /\ Cardinality(BlankLines) = 1
    /\ Cardinality(MarkerLines) = 2
    /\ \A k \in Boundaries : BlockWellFormed(k)

\* the smaller of the two parentless commits, its child, and the other one
SmallRoot(g) == CHOOSE r \in DOMAIN g : g[r].parents = {} /\
                  \A q \in DOMAIN g : g[q].parents = {} => r <= q
SmallRootChild(g) == CHOOSE c \in DOMAIN g : g[c].parents = {SmallRoot(g)}
OtherRoot(g) == CHOOSE r \in DOMAIN g : g[r].parents = {} /\ r # SmallRoot(g)

\* C5 amended: the text for two disjoint edges holds one, two or three boundary
\* blocks, each a closing marker with the parents of the commit before it, one
\* blank line and an opening marker with the children of the commit after it;
\* it holds exactly one, with each edge printed as one run, exactly when the
\* child of the smaller parentless commit is smaller than the other
\* parentless commit.
C5_OneToThreeBoundaries ==
  (pc = "done" /\ TwoEdges(graph)) =>
    /\ Cardinality(Boundaries) \in 1..3
    /\ Cardinality(BlankLines) = Cardinality(Boundaries)
    /\ Cardinality(MarkerLines) = 2 * Cardinality(Boundaries)
    /\ \A k \in Boundaries : BlockWellFormed(k)
    /\ RunsContiguous <=> Cardinality(Boundaries) = 1
    /\ Cardinality(Boundaries) = 1 <=> SmallRootChild(graph) < OtherRoot(graph)

C5_Witness ==
  /\ pc = "done"
  /\ TwoEdges(graph)
  /\ Cardinality(Boundaries) = 3

\* the order Kahn's algorithm gives when the smallest ready hash is always
\* taken, newest first; acc holds the hashes taken so far
RECURSIVE SmallestFirst(_, _)
SmallestFirst(g, acc) ==
  LET ready == {h \in DOMAIN g \ Range(acc) : g[h].parents \subseteq Range(acc)}
  IN IF ready = {} THEN acc
     ELSE SmallestFirst(g, <<CHOOSE h \in ready : \A q \in ready : h <= q>> \o acc)

\* C6: whatever order the keys of the table and the children sets are iterated
\* in, topo_sort returns the one sequence that the table's keys, parents and
\* children determine.
C6_Deterministic ==
  SortReturned => topo_ordered_commits = SmallestFirst(graph, <<>>)

C6_Witness ==
  /\ SortReturned
  /\ Len(topo_ordered_commits) = 4
  /\ Cardinality({h \in Keys : graph[h].parents = {}}) = 2
  /\ \E h \in Keys : Cardinality(graph[h].children) = 2

\* the hashes reachable from the branch heads along the parents that the
\* headers of the objects read declare
RECURSIVE DeclaredReach(_)
DeclaredReach(H) ==
  LET more == H \cup UNION {HeaderParents(objects[h].lines) : h \in H \cap DOMAIN objects}
  IN IF more = H THEN H ELSE DeclaredReach(more)

Seeds == {branches[k][2] : k \in 1..Len(branches)}

\* C7: the table build_commit_graph returns has exactly the hashes reachable
\* from the branch heads as keys, and each key has exactly the parents that
\* the header of its object declares.
C7_ReachableExactly ==
  BuildReturned =>
    /\ Keys = DeclaredReach(Seeds)
    /\ Keys \subseteq DOMAIN objects
    /\ \A h \in Keys : graph[h].parents = HeaderParents(objects[h].lines)

C7_Witness ==
  /\ pc = "built"
  /\ Cardinality(Keys) = 3
  /\ \E h \in Keys : \E p \in graph[h].parents : p # h /\ graph[p].parents \ {h, p} # {}
  /\ \E h \in Keys :
       /\ objects[h].lines = <<BlankLine, ParentLine(h)>>
       /\ graph[h].parents = {}

\* C8: an object that is absent or cannot be read is no hard error: its node
\* is in the table with no parents and build_commit_graph goes on.
C8_NoHardError ==
  \A h \in DOMAIN objects :
    objects[h].status \in {"absent", "unreadable"} =>
      /\ pc # "crashed"
      /\ h \in Keys
      /\ graph[h].parents = {}

\* no key, parent or child leaves the table in a step
GraphGrows ==
  /\ DOMAIN graph \subseteq DOMAIN graph'
  /\ \A h \in DOMAIN graph :
       /\ graph[h].parents \subseteq graph'[h].parents
       /\ graph[h].children \subseteq graph'[h].children

\* C10: between edge insertions and in the returned table B is a parent of A
\* exactly when A is a child of B, and the table only grows.
C10_ConsistentAndGrowing == [](Consistent(graph)) /\ [][GraphGrows]_vars

C10_Witness ==
  /\ pc = "scan"
  /\ Cardinality(Keys) = 3
  /\ \E h \in Keys : Cardinality(graph[h].children) = 2
  /\ \E h \in Keys : h \in graph[h].parents
====
